---- MODULE Spec2Model ----
(***************************************************************************)
(* Model of the StillFace sync / cut / visualize pipeline.                 *)
(*   sync.py      : camera inventory, normalisation, reference selection,  *)
(*                  batch driver with the two text ledgers                 *)
(*   cut.py       : phase trimming and the composites made by cut()        *)
(*   visualize.py : the standalone composite operation (mode "stack")      *)
(* A path is a tuple inside one session directory; an Optional value is    *)
(* the empty tuple (None) or a one-element tuple.                          *)
(* Text (ids, ledger lines, timestamps) is a sequence of one-character     *)
(* strings.                                                                *)
(***************************************************************************)
EXTENDS Integers, Sequences, FiniteSets, TLC

\* ------------------------------------------------------------------ bounds
MaxRows == 3          \* roster rows read, over all sync_all invocations
MaxToolFail == 1      \* trims and composites the environment fails, over all runs
MaxKillPoint == 4     \* external calls of one sync a kill can fall on or after

\* --------------------------------------------------------------- constants
DB_DIR == "data/ELTE-PPK_StillFace"
\* another directory given as --db_dir
Elsewhere == "elsewhere"
Roots == {DB_DIR, Elsewhere}
CAMERA_NAMES == <<"mother", "baby", "window", "door">>
PHASES == <<"baseline", "play", "stillface", "reunion">>
Cameras == {CAMERA_NAMES[i] : i \in 1..Len(CAMERA_NAMES)}
Phases == {PHASES[i] : i \in 1..Len(PHASES)}
AuxCameras == {"window", "door"}

None == <<>>
Some(x) == <<x>>

\* session ids of the roster, as text
Ids == { <<"1">>, <<"1", "2">>, <<"2">> }
TheId == <<"1">>
\* offsets (ms) the alignment primitive may return
Offsets == {-40, 120}
\* frame rates in hundredths of a frame per second
FpsValues == {5994, 6000}

\* ------------------------------------------------------------------- paths
\* <<directory, name, phase, extension>>; the phase is "" outside the cuts
Path(dir, stem, ext) == <<dir, stem, "", ext>>
Original(stem, ext) == Path("original", stem, ext)
Synced(cam) == Path("synced", cam, "mp4")
Stem(p) == p[2]
\* <output_dir>/<name>_<phase>.mp4
PhasePath(dir, name, phase) == <<dir, name, phase, "mp4">>

\* ------------------------------------------- the trace of one operation
\* m.fs: files of the session, m.calls: external invocations made so far,
\* m.exc: the exception in flight ("none" when there is none; "Killed" when
\* the process is gone), m.kill: the number of the call during which the
\* process is killed (0: it is not killed)
Machine(fs) == [fs |-> fs, calls |-> <<>>, exc |-> "none", kill |-> 0]
\* ins: the input paths in argument order, outs: the paths written,
\* result: what the call returned (None when it raised or returns nothing),
\* existed: an output path was already on disk when the call was made
CallRec(tool, ins, outs, arg, result, fs) ==
    [tool |-> tool, ins |-> ins, outs |-> outs, arg |-> arg, result |-> result,
     existed |-> (outs \cap fs # {})]
Log(m, c) == [m EXCEPT !.calls = Append(@, c)]
Raise(m, e) == [m EXCEPT !.exc = e]
\* a file of the sync stage whose content is incomplete is on disk like any
\* other (p is in fs) and carries a mark the program cannot see
Partial(p) == <<"partial", p[1], p[2], p[4]>>
\* the same mark for a file the process was writing when it was killed
Torn(p) == <<"torn", p[1], p[2], p[4]>>
Incomplete(fs, p) == Partial(p) \in fs \/ Torn(p) \in fs
\* p is written from start to end
Touch(m, p) == [m EXCEPT !.fs = (@ \cup {p}) \ {Partial(p), Torn(p)}]
\* the call logged last is the one the kill falls on: what it was writing
\* stays on disk as far as it got, and nothing runs after it
Killed(l) == l.kill = Len(l.calls)
Interrupt(l) ==
    LET outs == l.calls[Len(l.calls)].outs
    IN [l EXCEPT !.fs = @ \cup outs \cup {Torn(p) : p \in outs},
                 !.calls[Len(l.calls)].result = None,
                 !.exc = "Killed"]
\* the writer of p stopped before the end
TouchPartial(m, p) == [m EXCEPT !.fs = @ \cup {p, Partial(p)}]

shutil_copy(m, src, dst) ==
    IF m.exc # "none" THEN m
    ELSE LET l == Log(m, CallRec("copy", <<src>>, {dst}, None, None, m.fs))
         IN IF src \notin m.fs THEN Raise(l, "FileNotFoundError")
            ELSE IF Killed(l) THEN Interrupt(l)
            ELSE IF Incomplete(m.fs, src) THEN TouchPartial(l, dst)
            ELSE Touch(l, dst)

\* what a run of ffmpeg can leave: "ok", exit zero and the whole output;
\* "fail", exit non-zero and no output; "partial", exit non-zero and the
\* part of the output written before the error
ConvOutcomes == {"ok", "fail", "partial"}

\* os.system(ffmpeg ... -r 60): the exit status is dropped
convert_to_60fps(m, input_path, output_path, ok) ==
    IF m.exc # "none" \/ output_path \in m.fs THEN m
    ELSE LET l == Log(m, CallRec("transcode", <<input_path>>, {output_path},
                                 None, Some(ok = "ok"), m.fs))
         IN IF Killed(l) THEN Interrupt(l)
            ELSE IF ok = "ok" THEN Touch(l, output_path)
            ELSE IF ok = "partial" THEN TouchPartial(l, output_path)
            ELSE l

camera_files ==
    [c \in Cameras |->
        IF c \in AuxCameras THEN Original(c, "MTS") ELSE Original(c, "mp4")]

get_available_cameras(fs) ==
    [c \in Cameras |-> IF camera_files[c] \in fs THEN Some(camera_files[c]) ELSE None]

\* one wide-angle channel of prepare_original_videos
PrepareOne(m, cameras, cam, fps, ok) ==
    IF m.exc # "none" \/ cameras[cam] = None THEN m
    ELSE LET mts == cameras[cam][1]
             mp4 == Original(cam, "mp4")
             dev == IF fps >= 6000 THEN fps - 6000 ELSE 6000 - fps
         IN IF dev > 1 THEN convert_to_60fps(m, mts, mp4, ok)
            ELSE IF mp4 \notin m.fs THEN shutil_copy(m, mts, mp4) ELSE m

Prepared(cameras) ==
    [c \in Cameras |->
        IF c \in AuxCameras /\ cameras[c] # None
        THEN Some(Original(c, "mp4")) ELSE cameras[c]]

prepare_original_videos(m, cameras, env) ==
    PrepareOne(PrepareOne(m, cameras, "window", env.fps["window"], env.conv["window"]),
               cameras, "door", env.fps["door"], env.conv["door"])

\* an alignment outcome: <<"raise">> or <<"ok", offset>>
AlignOutcomes == {<<"raise">>} \cup {<<"ok", o>> : o \in Offsets}

\* the primitive cannot align a file that is not there
Aligns(m, inputs, outcome) == outcome[1] = "ok" /\ inputs \subseteq m.fs

\* avst.sync.sync_videos(video1, video2, output1, output2)
sync_videos(m, video1, video2, output1, output2, outcome) ==
    LET ok == Aligns(m, {video1, video2}, outcome)
        l == Log(m, CallRec("align", <<video1, video2>>, {output1, output2}, None,
                           IF ok THEN Some(outcome[2]) ELSE None, m.fs))
    IN IF Killed(l) THEN Interrupt(l)
       ELSE IF ok THEN Touch(Touch(l, output1), output2) ELSE Raise(l, "AlignError")

\* avst.sync.sync_to_reference(video1, video2, output2)
sync_to_reference(m, video1, video2, output2, outcome) ==
    LET ok == Aligns(m, {video1, video2}, outcome)
        l == Log(m, CallRec("align_ref", <<video1, video2>>, {output2}, None,
                           IF ok THEN Some(outcome[2]) ELSE None, m.fs))
    IN IF Killed(l) THEN Interrupt(l)
       ELSE IF ok THEN Touch(l, output2) ELSE Raise(l, "AlignError")


\* ------------------------------------------------------------ sync.py core
\* variant: the pair is aligned with baby as video1 and mother as video2
sync_mother_baby_swapped(m, mother_path, baby_path, outcome) ==
    LET none == [mother |-> None, baby |-> None]
    IN IF m.exc # "none" THEN [m |-> m, result |-> none, ms_offset |-> None]
       ELSE IF mother_path # None /\ baby_path # None
       THEN [m |-> sync_videos(m, baby_path[1], mother_path[1],
                               Synced("baby"), Synced("mother"), outcome),
             result |-> [mother |-> Some(Synced("mother")),
                         baby |-> Some(Synced("baby"))],
             ms_offset |-> IF Aligns(m, {mother_path[1], baby_path[1]}, outcome)
                           THEN Some(outcome[2]) ELSE None]
       ELSE IF baby_path # None
       THEN [m |-> shutil_copy(m, baby_path[1], Synced("baby")),
             result |-> [none EXCEPT !.baby = Some(Synced("baby"))],
             ms_offset |-> None]
       ELSE IF mother_path # None
       THEN [m |-> shutil_copy(m, mother_path[1], Synced("mother")),
             result |-> [none EXCEPT !.mother = Some(Synced("mother"))],
             ms_offset |-> None]
       ELSE [m |-> m, result |-> none, ms_offset |-> None]

\* variant: a channel without its partner gets its synced path and no copy
sync_mother_baby_without_copy(m, mother_path, baby_path, outcome) ==
    LET none == [mother |-> None, baby |-> None]
    IN IF m.exc # "none" THEN [m |-> m, result |-> none, ms_offset |-> None]
       ELSE IF mother_path # None /\ baby_path # None
       THEN [m |-> sync_videos(m, mother_path[1], baby_path[1],
                               Synced("mother"), Synced("baby"), outcome),
             result |-> [mother |-> Some(Synced("mother")),
                         baby |-> Some(Synced("baby"))],
             ms_offset |-> IF Aligns(m, {mother_path[1], baby_path[1]}, outcome)
                           THEN Some(outcome[2]) ELSE None]
       ELSE IF baby_path # None
       THEN [m |-> m,
             result |-> [none EXCEPT !.baby = Some(Synced("baby"))],
             ms_offset |-> None]
       ELSE IF mother_path # None
       THEN [m |-> m,
             result |-> [none EXCEPT !.mother = Some(Synced("mother"))],
             ms_offset |-> None]
       ELSE [m |-> m, result |-> none, ms_offset |-> None]

\* returns the machine, the 'mother'/'baby' result dict and the offset
sync_mother_baby(m, mother_path, baby_path, outcome) ==
    LET none == [mother |-> None, baby |-> None]
    IN IF m.exc # "none" THEN [m |-> m, result |-> none, ms_offset |-> None]
       ELSE IF mother_path # None /\ baby_path # None
       THEN [m |-> sync_videos(m, mother_path[1], baby_path[1],
                               Synced("mother"), Synced("baby"), outcome),
             result |-> [mother |-> Some(Synced("mother")),
                         baby |-> Some(Synced("baby"))],
             ms_offset |-> IF Aligns(m, {mother_path[1], baby_path[1]}, outcome)
                           THEN Some(outcome[2]) ELSE None]
       ELSE IF baby_path # None
       THEN [m |-> shutil_copy(m, baby_path[1], Synced("baby")),
             result |-> [none EXCEPT !.baby = Some(Synced("baby"))],
             ms_offset |-> None]
       ELSE IF mother_path # None
       THEN [m |-> shutil_copy(m, mother_path[1], Synced("mother")),
             result |-> [none EXCEPT !.mother = Some(Synced("mother"))],
             ms_offset |-> None]
       ELSE [m |-> m, result |-> none, ms_offset |-> None]

\* reference_path.stem is read (line 158) before the test for None (line 162)
sync_auxiliary_camera(m, cam_name, cam_path, reference_path, outcome) ==
    IF m.exc # "none" THEN [m |-> m, path |-> None]
    ELSE IF reference_path = None
    THEN [m |-> Raise(m, "AttributeError"), path |-> None]
    ELSE IF cam_path = reference_path[1]
    THEN [m |-> shutil_copy(m, cam_path, Synced(cam_name)),
          path |-> Some(Synced(cam_name))]
    ELSE [m |-> sync_to_reference(m, reference_path[1], cam_path,
                                  Synced(cam_name), outcome),
          path |-> Some(Synced(cam_name))]

\* variant: mother is preferred to baby
ChooseReferenceMotherFirst(synced, cameras) ==
    IF synced["mother"] # None THEN synced["mother"]
    ELSE IF synced["baby"] # None THEN synced["baby"]
    ELSE IF cameras["window"] # None THEN cameras["window"]
    ELSE None

\* Step 4 of sync: priority baby > mother > window
ChooseReference(synced, cameras) ==
    IF synced["baby"] # None THEN synced["baby"]
    ELSE IF synced["mother"] # None THEN synced["mother"]
    ELSE IF cameras["window"] # None THEN cameras["window"]
    ELSE None

\* sync(db_dir, session_id): ret is None for the bare return and while an
\* exception is in flight, Some([synced, ms_offset_mb]) for the tuple
sync(fs, env) ==
    LET found == get_available_cameras(fs)
        available == {c \in Cameras : found[c] # None}
    IN IF available = {}
       THEN [m |-> Machine(fs), ret |-> None, available |-> available]
       ELSE
        LET m1 == prepare_original_videos([Machine(fs) EXCEPT !.kill = env.kill],
                                          found, env)
            cameras == Prepared(found)
            mb == sync_mother_baby(m1, cameras["mother"], cameras["baby"], env.mb)
            reference == ChooseReference(mb.result, cameras)
            w == IF cameras["window"] # None
                 THEN sync_auxiliary_camera(mb.m, "window", cameras["window"][1],
                                            reference, env.aux["window"])
                 ELSE [m |-> mb.m, path |-> None]
            reference2 == IF cameras["window"] # None /\ reference = None
                          THEN w.path ELSE reference
            d == IF cameras["door"] # None
                 THEN sync_auxiliary_camera(w.m, "door", cameras["door"][1],
                                            reference2, env.aux["door"])
                 ELSE [m |-> w.m, path |-> None]
            synced == [c \in Cameras |->
                         IF c = "window" THEN w.path
                         ELSE IF c = "door" THEN d.path
                         ELSE mb.result[c]]
        IN [m |-> d.m,
            ret |-> IF d.m.exc = "none"
                    THEN Some([synced |-> synced, ms_offset_mb |-> mb.ms_offset])
                    ELSE None,
            available |-> available]

\* the choices of the environment one sync can observe; those of the calls
\* it does not make are fixed, and so is the offset sync discards
Raised == <<"raise">>
AuxOutcomes == {Raised, <<"ok", 0>>}
EnvsFor(fs) ==
    LET found == get_available_cameras(fs)
        has(c) == found[c] # None
        pair == has("mother") /\ has("baby")
        subject == has("mother") \/ has("baby")
        Prep(c) == IF has(c) /\ Original(c, "mp4") \notin fs
                   THEN {<<f, k>> \in FpsValues \X ConvOutcomes : f = 6000 => k = "ok"}
                   ELSE {<<6000, "ok">>}
        Mb == IF pair THEN AlignOutcomes ELSE {Raised}
        stop(mb) == pair /\ mb = Raised
        Win(mb) == IF has("window") /\ subject /\ ~stop(mb)
                   THEN AuxOutcomes ELSE {Raised}
        Door(mb, w) ==
            IF has("door") /\ ~stop(mb) /\ (subject \/ has("window"))
               /\ ~(has("window") /\ subject /\ w = Raised)
            THEN AuxOutcomes ELSE {Raised}
    IN UNION { UNION {
         { [fps |-> [c \in AuxCameras |-> IF c = "window" THEN pw[1] ELSE pd[1]],
            conv |-> [c \in AuxCameras |-> IF c = "window" THEN pw[2] ELSE pd[2]],
            mb |-> mb,
            aux |-> [c \in AuxCameras |-> IF c = "window" THEN w ELSE d],
            kill |-> 0] :
           pw \in Prep("window"), pd \in Prep("door"), d \in Door(mb, w) } :
         w \in Win(mb) } : mb \in Mb }

\* the same choices for a sync during which the process is killed
KillEnvsFor(fs) ==
    {[e EXCEPT !.kill = k] : e \in EnvsFor(fs), k \in 1..MaxKillPoint}

\* ------------------------------------------------------------------- text
Digits == <<"0", "1", "2", "3", "4", "5", "6", "7", "8", "9">>
RECURSIVE NatStr(_)
NatStr(n) == IF n < 10 THEN <<Digits[n + 1]>>
             ELSE NatStr(n \div 10) \o <<Digits[(n % 10) + 1]>>
\* str() of an Optional[int]
PyStr(v) == IF v = None THEN <<"N", "o", "n", "e">>
            ELSE IF v[1] < 0 THEN <<"-">> \o NatStr(0 - v[1])
            ELSE NatStr(v[1])
startswith(line, prefix) ==
    Len(prefix) <= Len(line) /\ SubSeq(line, 1, Len(prefix)) = prefix
\* int() of a text of digits
DigitValue(ch) == (CHOOSE i \in 1..10 : Digits[i] = ch) - 1
RECURSIVE ParseNat(_)
ParseNat(t) ==
    IF Len(t) = 0 THEN 0
    ELSE 10 * ParseNat(SubSeq(t, 1, Len(t) - 1)) + DigitValue(t[Len(t)])
\* str.split(sep) for a one-character separator
RECURSIVE Split(_, _)
Split(t, sep) ==
    IF \A i \in 1..Len(t) : t[i] # sep THEN <<t>>
    ELSE LET k == CHOOSE i \in 1..Len(t) :
                    t[i] = sep /\ \A j \in 1..(i - 1) : t[j] # sep
         IN <<SubSeq(t, 1, k - 1)>> \o Split(SubSeq(t, k + 1, Len(t)), sep)

\* -------------------------------------------------------- sync.py batch
\* variant: the id is compared with the whole line
is_synced_whole_line(ledger, session_id) ==
    \E i \in 1..Len(ledger) : ledger[i] = session_id

\* a ledger file is the sequence of its lines; a missing file has none
is_synced(ledger, session_id) ==
    \E i \in 1..Len(ledger) : startswith(ledger[i], session_id)

\* the three `continue` tests of the loop body
Skips(ledger, row) ==
    is_synced(ledger, row.ID) \/ row.Auto = "n" \/ row.offset # None

SyncedLine(id, ms_offset_mb) == id \o <<",">> \o PyStr(ms_offset_mb)
FailedLine(id) == id

\* the try / except / append of one loop iteration on the result of sync():
\* unpacking the bare return raises TypeError inside the try
RowOutcome(r) ==
    IF r.m.exc # "none" THEN [kind |-> "failed", exc |-> r.m.exc]
    ELSE IF r.ret = None THEN [kind |-> "failed", exc |-> "TypeError"]
    ELSE [kind |-> "completed", exc |-> "none"]

\* variant: only alignment errors are caught and logged
AppendFailedAlignOnly(ledger, row, o) ==
    IF o.kind = "failed" /\ o.exc = "AlignError"
    THEN Append(ledger, FailedLine(row.ID)) ELSE ledger

AppendFailed(ledger, row, o) ==
    IF o.kind = "failed" THEN Append(ledger, FailedLine(row.ID)) ELSE ledger
\* variant: a completed line is written after a failed attempt as well
AppendSyncedAlways(ledger, row, o, r) ==
    IF o.kind = "completed"
    THEN Append(ledger, SyncedLine(row.ID, r.ret[1].ms_offset_mb))
    ELSE Append(ledger, SyncedLine(row.ID, None))
AppendSynced(ledger, row, o, r) ==
    IF o.kind = "completed"
    THEN Append(ledger, SyncedLine(row.ID, r.ret[1].ms_offset_mb)) ELSE ledger
\* the row the for loop reads after this one
NextIndex(i, o) == i + 1

\* the directory the two ledger paths are built from: the module constant,
\* whatever db_dir sync_all was given
LedgerDir(db_dir) == DB_DIR
\* the session directory sync() wrote, and the two appends of the loop body
WithFiles(disk, d, id, fs) == [disk EXCEPT ![d].files[id] = fs]
WithLedgers(disk, d, row, o, r) ==
    [disk EXCEPT ![d].failed_sessions = AppendFailed(@, row, o),
                 ![d].synced_sessions = AppendSynced(@, row, o, r)]

\* ------------------------------------------------------------------ cut.py
mmss_to_seconds(mmss) ==
    LET parts == Split(mmss, ":")
    IN IF Len(parts) = 2 THEN ParseNat(parts[1]) * 60 + ParseNat(parts[2])
       ELSE IF Len(parts) = 3
       THEN ParseNat(parts[1]) * 3600 + ParseNat(parts[2]) * 60 + ParseNat(parts[3])
       ELSE 0

\* the choices of the environment one cut or stack operation can observe:
\* fail, the calls whose ffmpeg exits non-zero; late_ok, whether ffmpeg exits
\* zero when asked to seek past the end of its input
\* the environment fails calls of these phases only
FailPhases == {"play"}
Composites == {"mother-baby", "session"}
\* the calls a cut can make on the disk fs, and the calls a stack can make
CutKeys(fs) == ({c \in Cameras : Synced(c) \in fs} \cup Composites) \X FailPhases
StackKeys == Composites \X FailPhases
RECURSIVE FailSets(_, _)
FailSets(keys, budget) ==
    IF budget <= 0 THEN {{}}
    ELSE LET smaller == FailSets(keys, budget - 1)
         IN smaller \cup {F \cup {k} : F \in smaller, k \in keys}
ToolEnvs(keys, budget, lates) == [fail : FailSets(keys, budget), late_ok : lates]

\* The calls of one cut or stack operation write pairwise different paths,
\* none of them a path another call of the operation reads before it is
\* written, except the cuts the composites read: every test of the disk is
\* made on fs, the disk when the call is made.
NoCall == [called |-> FALSE, call |-> CallRec("none", <<>>, {}, None, None, {}),
           success |-> FALSE]
Called(r) == r.called

\* cut_video: no look at the input's duration, no look at the output;
\* success is whether ffmpeg exited zero
cut_video(fs, input_video, output_video, start_time, end_time, length, key, env) ==
    IF input_video \notin fs THEN NoCall
    ELSE LET start_seconds == mmss_to_seconds(start_time)
             end_seconds == mmss_to_seconds(end_time)
             ok == /\ key \notin env.fail
                   /\ (start_seconds > length => env.late_ok)
         IN [called |-> TRUE,
             call |-> CallRec("trim", <<input_video>>, {output_video},
                              <<start_time, end_seconds - start_seconds>>,
                              Some(ok), fs),
             success |-> ok]

NoCuts == [c \in Cameras |-> [ph \in Phases |-> None]]

\* video_names x phases in the order of the two loops
CutOrder ==
    [k \in 1..(Len(CAMERA_NAMES) * Len(PHASES)) |->
        <<CAMERA_NAMES[((k - 1) \div Len(PHASES)) + 1],
          PHASES[((k - 1) % Len(PHASES)) + 1]>>]
CutIndex(video_name, phase) ==
    CHOOSE k \in 1..Len(CutOrder) : CutOrder[k] = <<video_name, phase>>
PhaseIndex(phase) == CHOOSE i \in 1..Len(PHASES) : PHASES[i] = phase
CallsOfResults(results) ==
    LET made == SelectSeq(results, Called)
    IN [i \in 1..Len(made) |-> made[i].call]
Written(results) ==
    UNION {results[k].call.outs : k \in {j \in 1..Len(results) : results[j].success}}

\* texts is the four "start-end" arguments, in the order of PHASES; a video
\* that is not in synced_dir is passed over, the others are cut phase by phase
cut_all_phases(fs, texts, length, env) ==
    LET \* timestamps[i] belongs to PHASES[i]; both are lists, built once
        timestamps == <<>> \o [i \in 1..Len(PHASES) |-> Split(texts[i], "-")]
        results ==
            <<>> \o [k \in 1..Len(CutOrder) |->
                LET video_name == CutOrder[k][1]
                    phase == CutOrder[k][2]
                    times == timestamps[PhaseIndex(phase)]
                IN IF Synced(video_name) \notin fs THEN NoCall
                   ELSE cut_video(fs, Synced(video_name),
                                  PhasePath("processed", video_name, phase),
                                  times[1], times[2],
                                  length[video_name], <<video_name, phase>>, env)]
    IN [fs |-> fs \cup Written(results),
        calls |-> CallsOfResults(results),
        cut_videos |->
            [c \in Cameras |-> [ph \in Phases |->
                IF results[CutIndex(c, ph)].success
                THEN Some(PhasePath("processed", c, ph)) ELSE None]]]

\* ------------------------------------------------- composites (both files)
GridOrder == <<"mother", "window", "baby", "door">>
AudioPriority == <<"baby", "mother", "window", "door">>
Filler == <<"lavfi", "color=black", "", "">>
IndexIn(order, name) == (CHOOSE i \in 1..Len(order) : order[i] = name) - 1

\* video_paths.get(name) and video_paths[name].exists()
Real(fs, video_paths, name) ==
    video_paths[name] # None /\ video_paths[name][1] \in fs
\* the inputs listed in the order of the audio priority list
GridInputsInPriorityOrder(fs, video_paths) ==
    [i \in 1..Len(AudioPriority) |->
        IF Real(fs, video_paths, AudioPriority[i]) THEN video_paths[AudioPriority[i]][1]
        ELSE Filler]
GridInputs(fs, video_paths) ==
    [i \in 1..Len(GridOrder) |->
        IF Real(fs, video_paths, GridOrder[i]) THEN video_paths[GridOrder[i]][1]
        ELSE Filler]
\* the first name of the priority list that is there: ref_video
FirstReal(fs, video_paths) ==
    LET real == {i \in 1..Len(AudioPriority) : Real(fs, video_paths, AudioPriority[i])}
    IN IF real = {} THEN None
       ELSE Some(AudioPriority[CHOOSE i \in real : \A j \in real : i <= j])

\* cut.py: the fallback takes the position in the priority list as the
\* number of the input
AudioIndexCut(fs, video_paths, audio_source) ==
    IF Real(fs, video_paths, audio_source) THEN Some(IndexIn(GridOrder, audio_source))
    ELSE IF FirstReal(fs, video_paths) = None THEN None
    ELSE Some(IndexIn(AudioPriority, FirstReal(fs, video_paths)[1]))

\* visualize.py: the fallback looks the input number up in video_exists
AudioIndexVisualize(fs, video_paths, audio_source) ==
    IF Real(fs, video_paths, audio_source) THEN Some(IndexIn(GridOrder, audio_source))
    ELSE IF FirstReal(fs, video_paths) = None THEN None
    ELSE Some(IndexIn(GridOrder, FirstReal(fs, video_paths)[1]))

\* os.system(ffmpeg ...) of a composite
Composite(fs, tool, ins, output_video, audio, key, env) ==
    [called |-> TRUE,
     call |-> CallRec(tool, ins, {output_video}, audio, Some(key \notin env.fail), fs),
     success |-> key \notin env.fail]

\* cut.py stack_videos_2x2
stack_videos_2x2_cut(fs, video_paths, output_video, audio_source, key, env) ==
    IF FirstReal(fs, video_paths) = None THEN NoCall
    ELSE Composite(fs, "grid", GridInputs(fs, video_paths), output_video,
                   AudioIndexCut(fs, video_paths, audio_source), key, env)

\* visualize.py stack_videos_2x2: the command is built, then dropped when
\* the output is already there
stack_videos_2x2(fs, video_paths, output_video, audio_source, key, env) ==
    IF FirstReal(fs, video_paths) = None THEN NoCall
    ELSE IF output_video \in fs THEN NoCall
    ELSE Composite(fs, "grid", GridInputs(fs, video_paths), output_video,
                   AudioIndexVisualize(fs, video_paths, audio_source), key, env)

\* variant: the audio of the pairwise stack is taken from the top video
stack_videos_vertical_cut_top_audio(fs, video1, video2, output_video, audio_source, key, env) ==
    IF video1 \notin fs \/ video2 \notin fs THEN NoCall
    ELSE Composite(fs, "vstack", <<video1, video2>>, output_video, Some(0), key, env)

\* cut.py stack_videos_vertical
stack_videos_vertical_cut(fs, video1, video2, output_video, audio_source, key, env) ==
    IF video1 \notin fs \/ video2 \notin fs THEN NoCall
    ELSE Composite(fs, "vstack", <<video1, video2>>, output_video,
                   Some(audio_source), key, env)

\* visualize.py stack_videos_vertical
stack_videos_vertical(fs, video1, video2, output_video, audio_source, key, env) ==
    IF video1 \notin fs \/ video2 \notin fs THEN NoCall
    ELSE IF output_video \in fs THEN NoCall
    ELSE Composite(fs, "vstack", <<video1, video2>>, output_video,
                   Some(audio_source), key, env)

\* the body of the loop over the phases in cut.py create_stacked_videos:
\* the pairwise stack, then the grid
StackPhaseCut(fs, cut_videos, output_dir, phase, env) ==
    << IF cut_videos["mother"][phase] # None /\ cut_videos["baby"][phase] # None
       THEN stack_videos_vertical_cut(fs, cut_videos["mother"][phase][1],
                cut_videos["baby"][phase][1],
                PhasePath(output_dir, "mother-baby", phase), 1,
                <<"mother-baby", phase>>, env)
       ELSE NoCall,
       stack_videos_2x2_cut(fs, [c \in Cameras |-> cut_videos[c][phase]],
                PhasePath(output_dir, "session", phase), "baby",
                <<"session", phase>>, env) >>

\* the same body in visualize.py
StackPhase(fs, cut_videos, output_dir, phase, env) ==
    << IF cut_videos["mother"][phase] # None /\ cut_videos["baby"][phase] # None
       THEN stack_videos_vertical(fs, cut_videos["mother"][phase][1],
                cut_videos["baby"][phase][1],
                PhasePath(output_dir, "mother-baby", phase), 1,
                <<"mother-baby", phase>>, env)
       ELSE NoCall,
       stack_videos_2x2(fs, [c \in Cameras |-> cut_videos[c][phase]],
                PhasePath(output_dir, "session", phase), "baby",
                <<"session", phase>>, env) >>

\* cut.py create_stacked_videos; output_dir stands for <output_dir>/visualize
create_stacked_videos_cut(fs, cut_videos, output_dir, env) ==
    LET results == StackPhaseCut(fs, cut_videos, output_dir, PHASES[1], env)
                   \o StackPhaseCut(fs, cut_videos, output_dir, PHASES[2], env)
                   \o StackPhaseCut(fs, cut_videos, output_dir, PHASES[3], env)
                   \o StackPhaseCut(fs, cut_videos, output_dir, PHASES[4], env)
    IN [fs |-> fs \cup Written(results), calls |-> CallsOfResults(results)]

\* visualize.py create_stacked_videos
create_stacked_videos(fs, cut_videos, output_dir, env) ==
    LET results == StackPhase(fs, cut_videos, output_dir, PHASES[1], env)
                   \o StackPhase(fs, cut_videos, output_dir, PHASES[2], env)
                   \o StackPhase(fs, cut_videos, output_dir, PHASES[3], env)
                   \o StackPhase(fs, cut_videos, output_dir, PHASES[4], env)
    IN [fs |-> fs \cup Written(results), calls |-> CallsOfResults(results)]

\* cut.py cut(), called with output_dir = Sessions/<id>/processed
cut(fs, texts, length, env) ==
    LET c == cut_all_phases(fs, texts, length, env)
        v == create_stacked_videos_cut(c.fs, c.cut_videos, "processed/visualize", env)
    IN [fs |-> v.fs, calls |-> c.calls \o v.calls, cut_videos |-> c.cut_videos]

\* visualize.py find_cut_videos
find_cut_videos(fs) ==
    [c \in Cameras |-> [ph \in Phases |->
        IF PhasePath("processed", c, ph) \in fs
        THEN Some(PhasePath("processed", c, ph)) ELSE None]]

\* visualize.py __main__, mode "stack"
stack(fs, env) ==
    LET found == find_cut_videos(fs)
        v == create_stacked_videos(fs, found, "visualize", env)
    IN [fs |-> v.fs, calls |-> v.calls, cut_videos |-> found]

\* the four "start-end" texts of a roster row, in the order of PHASES
Timestamps ==
    << <<"0", ":", "0", "0", ":", "0", "0", "-", "0", ":", "0", "2", ":", "0", "0">>,
       <<"0", "2", ":", "0", "0", "-", "0", "7", ":", "0", "0">>,
       <<"0", "7", ":", "0", "0", "-", "0", "9", ":", "0", "0">>,
       <<"0", "9", ":", "0", "0", "-", "1", "2", ":", "0", "0">> >>
TimestampChoices == {Timestamps}
\* lengths of the synced videos, in seconds
Durations == {539, 720}

Rows == [ID : Ids, Auto : {"y", "n"}, offset : {None, Some(250)}]
NoRow == [ID |-> <<>>, Auto |-> "y", offset |-> None]
NoSynced == [c \in Cameras |-> None]
NoLast == [row |-> NoRow, kind |-> "none", exc |-> "none", available |-> {},
           synced |-> NoSynced, offset |-> None]

\* raw recordings a session directory may hold when the batch starts
RawFiles(cams) == {camera_files[c] : c \in cams}
BatchCameraSets == { {}, {"mother", "baby"}, {"baby", "window"} }

\* roster: "present", "missing" (no file at --metadata_path), "unreadable"
\* (a file pandas cannot read) or "unused" (--session_id given);
\* exit: None while the command runs, else the exit status of the process
\* db_dir: the --db_dir of the command
NoMain == [roster |-> "unused", exit |-> None, db_dir |-> DB_DIR]
RosterStates == {"missing", "unreadable"}

\* the session directories and the two ledgers under a root that is not
\* DB_DIR
NoFiles == [i \in Ids |-> {}]
NoElsewhere == [files |-> NoFiles, synced_sessions |-> <<>>, failed_sessions |-> <<>>]

\* a second sync_all process: "idle", "loop" (between two rows) or "try"
\* (past the three `continue` tests of its row, before sync())
NoPeer == [pc |-> "idle", row |-> NoRow, hist |-> <<>>]

VARIABLES
    ids,               \* the session ids of the database
    files,             \* [Ids -> set of paths]: the session directories
    synced_sessions,   \* lines of synced_sessions.txt
    failed_sessions,   \* lines of failed_sessions.txt
    pc,                \* "idle" or the operation in progress
    index,             \* roster rows passed by the running sync_all
    rows,              \* roster rows read by all invocations
    hist,              \* attempts of the running invocation, in order
    last,              \* what the last loop iteration did
    calls,             \* external invocations of the last operation
    duration,          \* seconds of each synced video of the session
    cut_videos,        \* the mapping the last cut or stack worked from
    failures,          \* ffmpeg failures the cuts and stacks have met
    main,              \* the last sync command: its roster and how it exited
    elsewhere,         \* the database under the root that is not DB_DIR
    peer               \* a second sync_all process beside the first

vars == <<ids, files, synced_sessions, failed_sessions, pc, index, rows, hist,
          last, calls, duration, cut_videos, failures, main, elsewhere, peer>>

\* the two roots side by side, as they are and as an action leaves them
Disk ==
    [d \in Roots |->
        IF d = DB_DIR
        THEN [files |-> files, synced_sessions |-> synced_sessions,
              failed_sessions |-> failed_sessions]
        ELSE elsewhere]
Stored(disk) ==
    /\ files' = disk[DB_DIR].files
    /\ synced_sessions' = disk[DB_DIR].synced_sessions
    /\ failed_sessions' = disk[DB_DIR].failed_sessions
    /\ elsewhere' = disk[Elsewhere]
\* the roots a command can be pointed at: the default one, and the other
\* one when it holds recordings
DbDirs == {DB_DIR} \cup {d \in {Elsewhere} : elsewhere.files # NoFiles}

Quiet ==
    /\ synced_sessions = <<>>
    /\ failed_sessions = <<>>
    /\ pc = "idle"
    /\ index = 0
    /\ rows = 0
    /\ hist = <<>>
    /\ last = NoLast
    /\ calls = <<>>
    /\ cut_videos = NoCuts
    /\ failures = 0
    /\ main = NoMain
    /\ peer = NoPeer

\* the database of the batch runs: three sessions
Init ==
    /\ ids = Ids
    /\ files \in [Ids -> {RawFiles(cs) : cs \in BatchCameraSets}]
    /\ duration = [c \in Cameras |-> 0]
    /\ elsewhere = NoElsewhere
    /\ Quiet

\* a database of one session, holding any of the sixteen sets of recordings
InitSession ==
    /\ ids = {TheId}
    /\ files \in [Ids -> {RawFiles(cs) : cs \in SUBSET Cameras}]
    /\ \A i \in Ids \ {TheId} : files[i] = {}
    /\ duration = [c \in Cameras |-> 0]
    /\ elsewhere = NoElsewhere
    /\ Quiet

\* a database of one session for the single-session command and the batch
\* side by side
InitSingle ==
    /\ ids = {TheId}
    /\ files \in [Ids -> {RawFiles(cs) : cs \in BatchCameraSets}]
    /\ \A i \in Ids \ {TheId} : files[i] = {}
    /\ duration = [c \in Cameras |-> 0]
    /\ elsewhere = NoElsewhere
    /\ Quiet

\* two roots, each with the one session and its recordings: the default
\* root and another one that sync_all can be pointed at
InitRoots ==
    /\ ids = {TheId}
    /\ files \in [Ids -> {RawFiles(cs) : cs \in BatchCameraSets}]
    /\ \A i \in Ids \ {TheId} : files[i] = {}
    /\ \E cs \in BatchCameraSets \ {{}} :
         elsewhere = [NoElsewhere EXCEPT !.files[TheId] = RawFiles(cs)]
    /\ duration = [c \in Cameras |-> 0]
    /\ Quiet

\* any content of the original directory of the one session
OriginalFiles ==
    {Original(c, "mp4") : c \in Cameras} \cup {Original(c, "MTS") : c \in AuxCameras}
InitInventory ==
    /\ ids = {TheId}
    /\ \E fs \in SUBSET OriginalFiles :
         files = [i \in Ids |-> IF i = TheId THEN fs ELSE {}]
    /\ duration = [c \in Cameras |-> 0]
    /\ elsewhere = NoElsewhere
    /\ Quiet

\* the one session after a sync that completed: every recording has its
\* normalised and its synced file, of some length
SyncedSession(cs) ==
    RawFiles(cs) \cup {Original(c, "mp4") : c \in cs \cap AuxCameras}
                 \cup {Synced(c) : c \in cs}
InitCut ==
    /\ ids = {TheId}
    /\ \E cs \in SUBSET Cameras :
         /\ files = [i \in Ids |-> IF i = TheId THEN SyncedSession(cs) ELSE {}]
         /\ duration \in [Cameras -> Durations \cup {0}]
         /\ \A c \in cs : duration[c] # 0
         /\ \A c \in Cameras \ cs : duration[c] = 0
    /\ elsewhere = NoElsewhere
    /\ Quiet

\* __main__ without --session_id, roster present: sync_all starts
SyncAllStart ==
    /\ pc = "idle" /\ rows < MaxRows
    /\ pc' = "sync_all"
    /\ index' = 0
    /\ hist' = <<>>
    /\ last' = NoLast
    /\ calls' = <<>>
    /\ \E db_dir \in DbDirs :
         main' = [roster |-> "present", exit |-> None, db_dir |-> db_dir]
    /\ UNCHANGED <<ids, elsewhere, peer, files, synced_sessions, failed_sessions, rows, duration,
                   cut_videos, failures>>

\* one iteration of `for index, row in metadata.iterrows()`
SyncAllRow ==
    /\ pc = "sync_all" /\ rows < MaxRows
    /\ \E row \in {w \in Rows : w.ID \in ids} :
       \E db \in {Disk[main.db_dir]} : \E ledgers \in {Disk[LedgerDir(main.db_dir)]} :
        IF Skips(ledgers.synced_sessions, row)
        THEN /\ index' = index + 1
             /\ last' = [NoLast EXCEPT !.row = row, !.kind = "skip"]
             /\ calls' = <<>>
             /\ UNCHANGED <<files, synced_sessions, failed_sessions, elsewhere, hist>>
        ELSE \E env \in EnvsFor(db.files[row.ID]) :
             \E r \in {sync(db.files[row.ID], env)} : \E o \in {RowOutcome(r)} :
                /\ Stored(WithLedgers(WithFiles(Disk, main.db_dir, row.ID, r.m.fs),
                                      LedgerDir(main.db_dir), row, o, r))
                /\ index' = NextIndex(index, o)
                /\ hist' = Append(hist, [ID |-> row.ID, kind |-> o.kind])
                /\ last' = [row |-> row, kind |-> o.kind, exc |-> o.exc,
                            available |-> r.available,
                            synced |-> IF r.ret = None THEN NoSynced
                                       ELSE r.ret[1].synced,
                            offset |-> IF r.ret = None THEN None
                                       ELSE r.ret[1].ms_offset_mb]
                /\ calls' = r.m.calls
    /\ rows' = rows + 1
    /\ UNCHANGED <<ids, peer, pc, duration, cut_videos, failures, main>>

\* the process is killed while sync_all works on a row: during one of the
\* external calls of sync(), or after the last of them and before the
\* ledger is written
Kill ==
    /\ pc = "sync_all" /\ rows < MaxRows
    /\ \E row \in {w \in Rows : w.ID \in ids /\ ~Skips(synced_sessions, w)} :
       \E env \in KillEnvsFor(files[row.ID]) :
       \E r \in {sync(files[row.ID], env)} :
          /\ files' = [files EXCEPT ![row.ID] = r.m.fs]
          /\ calls' = r.m.calls
          /\ last' = [NoLast EXCEPT !.row = row, !.kind = "killed", !.exc = "Killed",
                                    !.available = r.available]
    /\ pc' = "idle"
    /\ rows' = rows + 1
    /\ main' = [main EXCEPT !.exit = Some(137)]
    /\ UNCHANGED <<ids, elsewhere, peer, synced_sessions, failed_sessions, index, hist, duration,
                   cut_videos, failures>>

\* a second `python sync.py` on the default root, started while the first
\* may be running: it shares the session directories and the two ledgers
PeerStart ==
    /\ peer.pc = "idle" /\ rows < MaxRows
    /\ peer' = [NoPeer EXCEPT !.pc = "loop"]
    /\ UNCHANGED <<ids, elsewhere, files, synced_sessions, failed_sessions, pc, index,
                   rows, hist, last, calls, duration, cut_videos, failures, main>>

\* the second process reads a row and makes the three `continue` tests
PeerRow ==
    /\ peer.pc = "loop" /\ rows < MaxRows
    /\ \E row \in {w \in Rows : w.ID \in ids} :
       \E ledgers \in {Disk[LedgerDir(DB_DIR)]} :
         peer' = [peer EXCEPT !.row = row,
                              !.pc = IF Skips(ledgers.synced_sessions, row)
                                     THEN "loop" ELSE "try"]
    /\ rows' = rows + 1
    /\ UNCHANGED <<ids, elsewhere, files, synced_sessions, failed_sessions, pc, index,
                   hist, last, calls, duration, cut_videos, failures, main>>

\* the second process runs sync() on the row it did not skip and appends
\* the outcome
PeerTry ==
    /\ peer.pc = "try"
    /\ \E row \in {peer.row} : \E env \in EnvsFor(files[row.ID]) :
       \E r \in {sync(files[row.ID], env)} : \E o \in {RowOutcome(r)} :
          /\ Stored(WithLedgers(WithFiles(Disk, DB_DIR, row.ID, r.m.fs),
                                LedgerDir(DB_DIR), row, o, r))
          /\ peer' = [peer EXCEPT !.pc = "loop",
                                  !.hist = Append(@, [ID |-> row.ID, kind |-> o.kind])]
    /\ UNCHANGED <<ids, pc, index, rows, hist, last, calls, duration, cut_videos,
                   failures, main>>

\* the roster of the second process is exhausted
PeerEnd ==
    /\ peer.pc = "loop"
    /\ peer' = [peer EXCEPT !.pc = "idle"]
    /\ UNCHANGED <<ids, elsewhere, files, synced_sessions, failed_sessions, pc, index,
                   rows, hist, last, calls, duration, cut_videos, failures, main>>

\* the roster is exhausted and sync_all returns
SyncAllEnd ==
    /\ pc = "sync_all"
    /\ pc' = "idle"
    /\ main' = [main EXCEPT !.exit = Some(0)]
    /\ UNCHANGED <<ids, elsewhere, peer, files, synced_sessions, failed_sessions, index, rows, hist,
                   last, calls, duration, cut_videos, failures>>

\* __main__ without --session_id when the roster is not there, or is there
\* and cannot be read: without the file neither branch is taken and the
\* process ends normally; read_excel raises out of sync_all
SyncAllNoRoster ==
    /\ pc = "idle"
    /\ \E roster \in RosterStates :
         main' = [roster |-> roster,
                  exit |-> IF roster = "missing" THEN Some(0) ELSE Some(1),
                  db_dir |-> DB_DIR]
    /\ UNCHANGED <<ids, elsewhere, peer, files, synced_sessions, failed_sessions, pc, index, rows,
                   hist, last, calls, duration, cut_videos, failures>>

\* variant: the single-session command passes over a session that has a
\* line in the completed ledger
SyncOneUnlessSynced ==
    /\ pc = "idle"
    /\ \E id \in ids : \E env \in EnvsFor(files[id]) :
         \E r \in {sync(files[id], env)} :
            /\ ~is_synced(synced_sessions, id)
            /\ files' = [files EXCEPT ![id] = r.m.fs]
            /\ calls' = r.m.calls
            /\ last' = [row |-> [NoRow EXCEPT !.ID = id],
                        kind |-> IF r.m.exc = "none" THEN "returned" ELSE "raised",
                        exc |-> r.m.exc,
                        available |-> r.available,
                        synced |-> IF r.ret = None THEN NoSynced
                                   ELSE r.ret[1].synced,
                        offset |-> IF r.ret = None THEN None
                                   ELSE r.ret[1].ms_offset_mb]
            /\ main' = [roster |-> "unused",
                        exit |-> IF r.m.exc = "none" THEN Some(0) ELSE Some(1),
                        db_dir |-> DB_DIR]
    /\ UNCHANGED <<ids, elsewhere, peer, synced_sessions, failed_sessions, pc, index, rows, hist,
                   duration, cut_videos, failures>>

\* __main__ with --session_id: sync() alone, no roster and no ledger
SyncOne ==
    /\ pc = "idle"
    /\ \E id \in ids : \E env \in EnvsFor(files[id]) :
         \E r \in {sync(files[id], env)} :
            /\ files' = [files EXCEPT ![id] = r.m.fs]
            /\ calls' = r.m.calls
            /\ last' = [row |-> [NoRow EXCEPT !.ID = id],
                        kind |-> IF r.m.exc = "none" THEN "returned" ELSE "raised",
                        exc |-> r.m.exc,
                        available |-> r.available,
                        synced |-> IF r.ret = None THEN NoSynced
                                   ELSE r.ret[1].synced,
                        offset |-> IF r.ret = None THEN None
                                   ELSE r.ret[1].ms_offset_mb]
            /\ main' = [roster |-> "unused",
                        exit |-> IF r.m.exc = "none" THEN Some(0) ELSE Some(1),
                        db_dir |-> DB_DIR]
    /\ UNCHANGED <<ids, elsewhere, peer, synced_sessions, failed_sessions, pc, index, rows, hist,
                   duration, cut_videos, failures>>

\* sync(), Step 1: the inventory of the session directory
Inventory ==
    /\ pc = "idle"
    /\ \E id \in ids :
         \E cameras \in {get_available_cameras(files[id])} :
            last' = [NoLast EXCEPT !.row = [NoRow EXCEPT !.ID = id],
                                   !.kind = "inventory",
                                   !.available = {c \in Cameras : cameras[c] # None}]
    /\ UNCHANGED <<ids, elsewhere, peer, files, synced_sessions, failed_sessions, pc, index, rows,
                   hist, calls, duration, cut_videos, failures, main>>

\* cut.py __main__: cut() on the session's synced directory
Cut ==
    /\ pc = "idle"
    /\ \E id \in ids : \E texts \in TimestampChoices :
       \E env \in ToolEnvs(CutKeys(files[id]), MaxToolFail - failures, BOOLEAN) :
         \E r \in {cut(files[id], texts, duration, env)} :
            /\ files' = [files EXCEPT ![id] = r.fs]
            /\ calls' = r.calls
            /\ failures' = failures + Cardinality(env.fail)
            /\ cut_videos' = r.cut_videos
            /\ last' = [NoLast EXCEPT !.row = [NoRow EXCEPT !.ID = id], !.kind = "cut"]
    /\ UNCHANGED <<ids, elsewhere, peer, synced_sessions, failed_sessions, pc, index, rows, hist,
                   duration, main>>

\* visualize.py __main__ --mode stack
Stack ==
    /\ pc = "idle"
    /\ \E id \in ids : \E env \in ToolEnvs(StackKeys, MaxToolFail - failures, {FALSE}) :
         \E r \in {stack(files[id], env)} :
            /\ files' = [files EXCEPT ![id] = r.fs]
            /\ calls' = r.calls
            /\ failures' = failures + Cardinality(env.fail)
            /\ cut_videos' = r.cut_videos
            /\ last' = [NoLast EXCEPT !.row = [NoRow EXCEPT !.ID = id], !.kind = "stack"]
    /\ UNCHANGED <<ids, elsewhere, peer, synced_sessions, failed_sessions, pc, index, rows, hist,
                   duration, main>>

Next == SyncAllStart \/ SyncAllRow \/ SyncAllEnd \/ SyncAllNoRoster

Spec == Init /\ [][Next]_vars

\* the batch driver over the one-session database
SpecSession == InitSession /\ [][Next]_vars

\* the single-session command and the batch over the one-session database
NextSingle == Next \/ SyncOne

SpecSingle == InitSingle /\ [][NextSingle]_vars

\* the batch over the one-session database, killed and started again
NextKill == Next \/ Kill

SpecKill == InitSingle /\ [][NextKill]_vars

\* two batch processes side by side over the one-session database
NextConcurrent == Next \/ PeerStart \/ PeerRow \/ PeerTry \/ PeerEnd

SpecConcurrent == InitSingle /\ [][NextConcurrent]_vars

\* the batch pointed at the default root or at the other one
SpecRoots == InitRoots /\ [][Next]_vars

\* the inventory over every content of the original directory
NextInventory == Inventory

SpecInventory == InitInventory /\ [][NextInventory]_vars

\* the cut and the composite commands over a synced session
NextCut == Cut \/ Stack

SpecCut == InitCut /\ [][NextCut]_vars


\* ======================================================================
\* Properties
\* ======================================================================
\* reading a ledger line back: the text before the first comma, the number
\* after it
HasComma(line) == \E i \in 1..Len(line) : line[i] = ","
FirstComma(line) ==
    CHOOSE i \in 1..Len(line) : line[i] = "," /\ \A j \in 1..(i - 1) : line[j] # ","
LineId(line) ==
    IF HasComma(line) THEN SubSeq(line, 1, FirstComma(line) - 1) ELSE line
\* the offset field of a completed line, as an Optional[int]
LineOffset(line) ==
    LET t == SubSeq(line, FirstComma(line) + 1, Len(line))
    IN IF t = <<"N", "o", "n", "e">> THEN None
       ELSE IF t[1] = "-" THEN Some(0 - ParseNat(Tail(t)))
       ELSE Some(ParseNat(t))
Recorded(ledger, id) == \E i \in 1..Len(ledger) : LineId(ledger[i]) = id

Attempted == last.kind \in {"failed", "completed"}
Session == files[last.row.ID]
Has(c) == camera_files[c] \in Session
SyncedFiles(fs) == {q \in fs : q[1] = "synced"}
CallsOf(tool) == {i \in 1..Len(calls) : calls[i].tool = tool}

\* C1: a session in which none of the four camera files is discovered yields
\* no synced artifact and counts as a success: its id is not written to the
\* failed ledger.
C1_ZeroChannelsIsSuccess ==
    (Attempted /\ \A c \in Cameras : ~Has(c))
        => /\ last.kind = "completed"
           /\ SyncedFiles(Session) = {}
           /\ ~Recorded(failed_sessions, last.row.ID)

\* C2: an attempt that raises appends the id to the failed ledger, leaves the
\* completed ledger alone, and the loop goes on with the next row (the batch
\* keeps running and does not read the failing row again); after two failing
\* attempts and a succeeding one, from empty ledgers, the failed ledger is
\* the two failing ids and the completed ledger one line of the third.
C2Scenario ==
    (/\ Len(hist) = 3
     /\ hist[1].kind = "failed" /\ hist[2].kind = "failed"
     /\ hist[3].kind = "completed"
     /\ Len(failed_sessions) + Len(synced_sessions) = Len(hist))
        => /\ failed_sessions = <<hist[1].ID, hist[2].ID>>
           /\ Len(synced_sessions) = 1
           /\ LineId(synced_sessions[1]) = hist[3].ID
C2_FailureIsLoggedAndBatchContinues ==
    [][ /\ (rows' = rows + 1 /\ last'.exc # "none")
            => /\ failed_sessions' = Append(failed_sessions, last'.row.ID)
               /\ synced_sessions' = synced_sessions
               /\ pc' = "sync_all"
               /\ index' = index + 1
        /\ C2Scenario' ]_vars
C2_Witness ==
    /\ Len(hist) = 3
    /\ hist[1].kind = "failed" /\ hist[2].kind = "failed"
    /\ hist[3].kind = "completed"
    /\ Cardinality({hist[i].ID : i \in 1..3}) = 3
    /\ Len(failed_sessions) = 2 /\ Len(synced_sessions) = 1

\* C3: a roster row is processed exactly when it is eligible, has no manual
\* offset and its own id is not recorded in the completed ledger; a line of
\* another id never makes it skip.
C3_ProcessedIffEligibleAndOwnIdNotCompleted ==
    [][ rows' = rows + 1
          => ((last'.kind # "skip")
                <=> (/\ last'.row.Auto # "n"
                     /\ last'.row.offset = None
                     /\ ~Recorded(synced_sessions, last'.row.ID))) ]_vars


\* C5: with mother and baby both discovered, the pair is aligned once, with
\* mother as video1 (reference) and baby as video2 (target), whatever else is
\* there; both get their synced path, and the offset the primitive returned
\* is the one written on the session's completed line.
C5_MotherIsReferenceBabyIsTarget ==
    (Attempted /\ Has("mother") /\ Has("baby"))
        => /\ Cardinality(CallsOf("align")) = 1
           /\ \A i \in CallsOf("align") :
                /\ calls[i].ins = <<Original("mother", "mp4"), Original("baby", "mp4")>>
                /\ calls[i].outs = {Synced("mother"), Synced("baby")}
                /\ last.kind = "completed"
                     => /\ last.synced["mother"] = Some(Synced("mother"))
                        /\ last.synced["baby"] = Some(Synced("baby"))
                        /\ calls[i].result # None
                        /\ LineId(synced_sessions[Len(synced_sessions)]) = last.row.ID
                        /\ LineOffset(synced_sessions[Len(synced_sessions)])
                             = calls[i].result
           /\ \A i \in CallsOf("copy") :
                calls[i].outs \cap {Synced("mother"), Synced("baby")} = {}
C5_Witness ==
    /\ last.kind = "completed" /\ Has("mother") /\ Has("baby")
    /\ Has("window") /\ Has("door")
    /\ LineOffset(synced_sessions[Len(synced_sessions)]) = Some(-40)

\* C6: the reference an auxiliary channel is aligned to is the synced baby
\* if baby was synced, else the synced mother if mother was synced, else
\* (for door only) the window channel processed before it; window is
\* handled before door.
ExpectedReference(c) ==
    IF Has("baby") THEN Some(Synced("baby"))
    ELSE IF Has("mother") THEN Some(Synced("mother"))
    ELSE IF c = "door" /\ Has("window") THEN Some(Original("window", "mp4"))
    ELSE None
AuxCalls(c) ==
    {i \in 1..Len(calls) : /\ calls[i].tool \in {"align_ref", "copy"}
                           /\ calls[i].outs = {Synced(c)}}
C6_ReferencePriority ==
    Attempted
        => /\ \A c \in AuxCameras : \A i \in AuxCalls(c) :
                /\ calls[i].tool = "align_ref"
                     => /\ ExpectedReference(c) # None
                        /\ calls[i].ins = <<ExpectedReference(c)[1], Original(c, "mp4")>>
                /\ calls[i].tool = "copy" => ExpectedReference(c) = None
           /\ \A c \in AuxCameras :
                (last.kind = "completed" /\ Has(c)) => Cardinality(AuxCalls(c)) = 1
           /\ \A i \in AuxCalls("window") : \A j \in AuxCalls("door") : i < j
C6_Witness ==
    /\ last.kind = "completed" /\ ~Has("baby") /\ ~Has("mother")
    /\ \E i \in AuxCalls("door") :
         /\ calls[i].tool = "align_ref"
         /\ Stem(calls[i].ins[1]) = "window"

\* C7: with neither mother nor baby, the first auxiliary channel there is
\* (window, else door), once normalised, is copied to its synced path
\* without an alignment call and without an error.
FirstAux == IF Has("window") THEN "window" ELSE "door"
C7_FirstAuxiliaryIsCopiedThrough ==
    (/\ Attempted /\ ~Has("mother") /\ ~Has("baby")
     /\ Has("window") \/ Has("door")
     /\ Original(FirstAux, "mp4") \in Session)
        => /\ \E i \in AuxCalls(FirstAux) :
                /\ calls[i].tool = "copy"
                /\ calls[i].ins = <<Original(FirstAux, "mp4")>>
           /\ \A i \in AuxCalls(FirstAux) : calls[i].tool # "align_ref"
           /\ Synced(FirstAux) \in Session
           /\ last.exc \notin {"AttributeError", "FileNotFoundError", "TypeError"}

\* ------------------------------------------------- cut and stack commands
\* the directory the operation put its composites in
GridDir(kind) == IF kind = "cut" THEN "processed/visualize" ELSE "visualize"
TrimCalls(cs, c, ph) ==
    {i \in 1..Len(cs) : /\ cs[i].tool = "trim"
                         /\ cs[i].outs = {PhasePath("processed", c, ph)}}
GridCalls(cs, kind, ph) ==
    {i \in 1..Len(cs) : /\ cs[i].tool = "grid"
                         /\ cs[i].outs = {PhasePath(GridDir(kind), "session", ph)}}
AllGridCalls == {i \in 1..Len(calls) : calls[i].tool = "grid"}
\* the start of a phase in seconds, read from the roster text
StartOf(ph) == mmss_to_seconds(Split(Timestamps[PhaseIndex(ph)], "-")[1])
Channels == {c \in Cameras : Synced(c) \in files[TheId]}
Late(c, ph) == StartOf(ph) > duration[c]

\* C4: a cut run on a session in which every phase cut of every synced
\* channel is already on disk invokes no external tool and writes over no
\* file.
C4_RerunInvokesNoTool ==
    [][ (/\ last'.kind = "cut"
         /\ Channels # {}
         /\ \A c \in Channels : \A ph \in Phases :
               PhasePath("processed", c, ph) \in files[TheId])
            => /\ calls' = <<>>
               /\ files' = files ]_vars

\* C8: in a cut run, a phase whose start lies past the length of a channel
\* is not trimmed for that channel and has no entry in the result mapping,
\* while the other phases of the channel are trimmed and, when the trim
\* succeeded, present in the mapping.
C8_LatePhaseIsNotTrimmed ==
    last.kind = "cut"
        => \A c \in Channels : \A ph \in Phases :
             IF Late(c, ph)
             THEN /\ TrimCalls(calls, c, ph) = {}
                  /\ cut_videos[c][ph] = None
             ELSE /\ TrimCalls(calls, c, ph) # {}
                  /\ \A i \in TrimCalls(calls, c, ph) :
                        calls[i].result = Some(TRUE) => cut_videos[c][ph] # None

\* C9: every grid composite, of the cut command and of the stack command,
\* takes its audio from the slot of the first channel in the order baby,
\* mother, window, door that is a real input, never from a filler slot.
SlotOf(name) == IndexIn(GridOrder, name) + 1
C9_GridAudioFromHighestPriorityRealSlot ==
    \A i \in AllGridCalls :
        /\ calls[i].arg # None
        /\ \E k \in 1..Len(AudioPriority) :
              /\ calls[i].arg = Some(SlotOf(AudioPriority[k]) - 1)
              /\ calls[i].ins[SlotOf(AudioPriority[k])] # Filler
              /\ \A j \in 1..(k - 1) : calls[i].ins[SlotOf(AudioPriority[j])] = Filler

\* whenever a grid is rendered for a phase it has the four inputs mother,
\* window, baby, door in this order, a channel without a cut giving its slot
\* to the black filler
FourSlots(cs, kind, found, ph) ==
    \A i \in GridCalls(cs, kind, ph) :
        /\ Len(cs[i].ins) = 4
        /\ \A k \in 1..4 :
              cs[i].ins[k] = IF found[GridOrder[k]][ph] # None
                             THEN PhasePath("processed", GridOrder[k], ph)
                             ELSE Filler
HasRealCut(found, ph) == \E c \in Cameras : found[c][ph] # None

\* C10 as stated: the grid of a phase is rendered exactly when a channel has
\* a cut of the phase, and then with the four slots.
C10_GridRenderedIffRealChannel ==
    [][ \A ph \in Phases :
          /\ (GridCalls(calls', last'.kind, ph) # {}) <=> HasRealCut(cut_videos', ph)
          /\ FourSlots(calls', last'.kind, cut_videos', ph) ]_vars

\* C10 amended: the cut command renders the grid of a phase exactly when a
\* channel has a cut of the phase; the stack command renders it exactly when
\* a channel has a cut of the phase and the grid file of the phase is not on
\* disk yet; a rendered grid has the four slots mother, window, baby, door in
\* this order, fillers in the slots of the channels without a cut.
C10_GridRenderedIffRealChannelAndOutputNew ==
    [][ \A ph \in Phases :
          /\ (GridCalls(calls', last'.kind, ph) # {})
                <=> /\ HasRealCut(cut_videos', ph)
                    /\ last'.kind = "stack"
                          => PhasePath("visualize", "session", ph) \notin files[TheId]
          /\ FourSlots(calls', last'.kind, cut_videos', ph) ]_vars
C10_Witness ==
    /\ last.kind = "stack"
    /\ \E i \in AllGridCalls :
          /\ Cardinality({k \in 1..4 : calls[i].ins[k] = Filler}) = 3
          /\ calls[i].ins[3] # Filler
    /\ \E ph \in Phases :
          /\ HasRealCut(cut_videos, ph)
          /\ GridCalls(calls, "stack", ph) = {}

PairCalls(cs, kind, ph) ==
    {i \in 1..Len(cs) : /\ cs[i].tool = "vstack"
                         /\ cs[i].outs = {PhasePath(GridDir(kind), "mother-baby", ph)}}
HasBothCuts(found, ph) == found["mother"][ph] # None /\ found["baby"][ph] # None
\* a pairwise stack that is made has mother on top, baby below, baby's audio
MotherOverBaby(cs, kind, ph) ==
    \A i \in PairCalls(cs, kind, ph) :
        /\ cs[i].ins = <<PhasePath("processed", "mother", ph),
                         PhasePath("processed", "baby", ph)>>
        /\ cs[i].arg = Some(1)

C12_CompositeNotRunOnExistingOutput ==
    \A i \in 1..Len(calls) :
        calls[i].tool \in {"vstack", "grid"} => ~calls[i].existed

\* C13: a batch attempt in which ffmpeg reported a failure while a
\* wide-angle channel was normalised ends as a failure: the id is appended to
\* the failed ledger, nothing is appended to the completed ledger, and the
\* loop goes on.
TranscodeFailed(cs) ==
    \E i \in 1..Len(cs) : cs[i].tool = "transcode" /\ cs[i].result = Some(FALSE)
C13_TranscodeFailureFailsTheSession ==
    [][ (rows' = rows + 1 /\ TranscodeFailed(calls'))
            => /\ last'.kind = "failed"
               /\ failed_sessions' = Append(failed_sessions, last'.row.ID)
               /\ synced_sessions' = synced_sessions
               /\ pc' = "sync_all" ]_vars

\* C14: in a cut run, a trim or a composite for which ffmpeg reported a
\* failure is the last call of the run, and the run ends with an error.
ToolFailed(cs, i) ==
    cs[i].tool \in {"trim", "vstack", "grid"} /\ cs[i].result = Some(FALSE)
C14_CutStopsAtFirstFailure ==
    last.kind = "cut"
        => \A i \in 1..Len(calls) :
             ToolFailed(calls, i) => (i = Len(calls) /\ last.exc # "none")

\* C15: a sync command without a session id whose roster is missing or
\* unreadable exits non-zero; a batch that ran to the end of the roster exits
\* zero whatever its attempts did, and an attempt that failed leaves the
\* batch running.
C15_OnlyAMissingRosterIsFatal ==
    /\ main.roster \in RosterStates => main.exit \notin {None, Some(0)}
    /\ (main.roster = "present" /\ pc = "idle") => main.exit = Some(0)
    /\ (main.roster = "present" /\ pc = "sync_all") => main.exit = None

\* C16: the single-session command can be run on a session whatever the
\* completed ledger holds; it runs sync() on the session (every channel
\* found is normalised, aligned or copied again), and it reads and writes
\* neither ledger nor roster.
SingleRan == last.kind \in {"returned", "raised"}
C16_SingleSessionBypassesRosterAndLedger ==
    /\ [](/\ pc = "idle" => ENABLED SyncOne
          /\ SingleRan
               => /\ last.available # {} => calls # <<>>
                  /\ last.available
                       = {c \in Cameras : camera_files[c] \in files[last.row.ID]})
    /\ [][ (last'.kind \in {"returned", "raised"} /\ last' # last)
              => /\ main'.roster = "unused"
                 /\ synced_sessions' = synced_sessions
                 /\ failed_sessions' = failed_sessions
                 /\ rows' = rows ]_vars
C16_Witness ==
    /\ SingleRan
    /\ Recorded(synced_sessions, TheId)
    /\ calls # <<>>

\* C17: the inventory reports window and door as available when their .MTS
\* file or their .mp4 file is in the original directory, and mother and baby
\* exactly when their .mp4 is there.
C17_InventoryAcceptsTapeOrContainer ==
    last.kind = "inventory"
        => last.available
             = {c \in Cameras :
                  \/ Original(c, "mp4") \in files[last.row.ID]
                  \/ c \in AuxCameras /\ Original(c, "MTS") \in files[last.row.ID]}

\* C18: an attempt of the batch appends one line to one ledger, the line
\* 'id,offset' to the completed ledger when it succeeded and the line 'id' to
\* the failed ledger when it raised; no other step writes a ledger, and no
\* line once written is changed or removed.
C18_OneLinePerAttempt ==
    [][ IF rows' = rows + 1 /\ last'.kind # "skip"
        THEN \/ /\ last'.kind = "completed"
                /\ synced_sessions'
                     = Append(synced_sessions, SyncedLine(last'.row.ID, last'.offset))
                /\ failed_sessions' = failed_sessions
             \/ /\ last'.kind = "failed"
                /\ failed_sessions' = Append(failed_sessions, last'.row.ID)
                /\ synced_sessions' = synced_sessions
        ELSE /\ synced_sessions' = synced_sessions
             /\ failed_sessions' = failed_sessions ]_vars
C18_Witness ==
    /\ Len(synced_sessions) = 2 /\ Len(failed_sessions) = 1
    /\ last.kind = "completed"
    /\ LineOffset(synced_sessions[1]) = None
    /\ LineOffset(synced_sessions[2]) = Some(120)

\* C19: with exactly one of mother and baby discovered, that channel is
\* copied to its synced path by one copy call, no pair alignment is made, the
\* other channel gets no synced file, and the offset of the session is None
\* (the completed line reads 'id,None').
Subjects == {"mother", "baby"}
C19_SingleSubjectIsCopiedThrough ==
    \A c \in Subjects : \A other \in Subjects \ {c} :
        (Attempted /\ Has(c) /\ ~Has(other))
            => /\ CallsOf("align") = {}
               /\ Cardinality({i \in CallsOf("copy") :
                                  /\ calls[i].ins = <<Original(c, "mp4")>>
                                  /\ calls[i].outs = {Synced(c)}}) = 1
               /\ \A i \in 1..Len(calls) : Synced(other) \notin calls[i].outs
               /\ Synced(c) \in Session
               /\ Synced(other) \notin Session
               /\ last.kind = "completed"
                     => /\ last.synced[c] = Some(Synced(c))
                        /\ last.synced[other] = None
                        /\ last.offset = None
                        /\ LineOffset(synced_sessions[Len(synced_sessions)]) = None
C19_Witness ==
    /\ last.kind = "completed" /\ Has("mother") /\ ~Has("baby") /\ Has("window")
    /\ Synced("mother") \in Session /\ Synced("window") \in Session
    /\ LineOffset(synced_sessions[Len(synced_sessions)]) = None

\* C20: after a kill and a restart, a file the killed run left half written
\* is not taken as done by an attempt (a normalised file that is still torn
\* after an attempt that found its channel was written again by that
\* attempt), and a row that is eligible, without manual offset and without a
\* completed line is processed.
C20_TornFileIsNotTakenAsDone ==
    /\ [](\A c \in AuxCameras :
            (Attempted /\ Has(c) /\ Torn(Original(c, "mp4")) \in Session)
               => \E i \in 1..Len(calls) : Original(c, "mp4") \in calls[i].outs)
    /\ [][ (rows' = rows + 1 /\ last'.row.Auto # "n" /\ last'.row.offset = None
             /\ ~Recorded(synced_sessions, last'.row.ID))
              => last'.kind # "skip" ]_vars
\* ----------------------------------------------------------------------
\* C21: the ledgers sync_all reads for the skip test and appends its
\* outcomes to are the two files under the db_dir it was given: a row is
\* passed over as completed exactly when the completed ledger under db_dir
\* has it, a completed or failed attempt adds its line to the ledgers under
\* db_dir, and the ledgers under every other root stay as they are.
C21_LedgersAreUnderTheGivenRoot ==
    [][(pc = "sync_all" /\ rows' = rows + 1)
         => /\ (last'.kind = "skip") = Skips(Disk[main.db_dir].synced_sessions, last'.row)
            /\ last'.kind = "completed"
                 => Len(Disk'[main.db_dir].synced_sessions)
                      = Len(Disk[main.db_dir].synced_sessions) + 1
            /\ last'.kind = "failed"
                 => Len(Disk'[main.db_dir].failed_sessions)
                      = Len(Disk[main.db_dir].failed_sessions) + 1
            /\ \A d \in Roots \ {main.db_dir} :
                 /\ Disk'[d].synced_sessions = Disk[d].synced_sessions
                 /\ Disk'[d].failed_sessions = Disk[d].failed_sessions]_vars

\* ----------------------------------------------------------------------
\* C22: over any batch invocations run one after the other, on any rosters,
\* the completed ledger never holds two lines of one session id, and a row
\* whose id has a completed line is passed over: sync() is not called for
\* it and neither ledger gains a line.
LinesOf(ledger, id) == {i \in 1..Len(ledger) : LineId(ledger[i]) = id}
C22_CompletedAtMostOncePerSession ==
    /\ [](\A id \in Ids : Cardinality(LinesOf(synced_sessions, id)) <= 1)
    /\ [][ (rows' = rows + 1 /\ Recorded(synced_sessions, last'.row.ID))
             => /\ last'.kind = "skip"
                /\ calls' = <<>>
                /\ synced_sessions' = synced_sessions
                /\ failed_sessions' = failed_sessions
                /\ files' = files ]_vars
\* a later invocation meets the eligible row of a session that an earlier
\* invocation recorded completed, on a roster that names the id twice
C22_Witness ==
    /\ pc = "sync_all" /\ hist = <<>> /\ index = 2
    /\ last.kind = "skip" /\ last.row.Auto = "y" /\ last.row.offset = None
    /\ LinesOf(synced_sessions, last.row.ID) = {1}
    /\ Len(synced_sessions) = 1

\* ----------------------------------------------------------------------
\* C23: a line in the failed ledger never keeps a session from being
\* processed: when a batch invocation reads the row of a session that an
\* earlier invocation recorded as failed, and the row is eligible, has no
\* manual offset and the session has no completed line, the session is
\* attempted again.
FailedNow == {i \in 1..Len(hist) : hist[i].kind = "failed"}
FailedEarlier(id) ==
    \E i \in LinesOf(failed_sessions, id) :
        i <= Len(failed_sessions) - Cardinality(FailedNow)
C23_FailedSessionIsAttemptedAgain ==
    [][ (/\ rows' = rows + 1
         /\ FailedEarlier(last'.row.ID)
         /\ last'.row.Auto # "n"
         /\ last'.row.offset = None
         /\ ~Recorded(synced_sessions, last'.row.ID))
          => last'.kind \in {"failed", "completed"} ]_vars

\* ----------------------------------------------------------------------
\* C24: with two batch processes at work on the same ledgers, the completed
\* ledger never holds two lines of one session id, and no session is synced
\* to completion by both processes while both run.
CompletedBy(h) == {h[i].ID : i \in {j \in 1..Len(h) : h[j].kind = "completed"}}
C24_ConcurrentBatchesDoNotRace ==
    /\ \A id \in Ids : Cardinality(LinesOf(synced_sessions, id)) <= 1
    /\ (pc = "sync_all" /\ peer.pc # "idle")
          => CompletedBy(hist) \cap CompletedBy(peer.hist) = {}

====
